---- MODULE Spec2Model ----
(***************************************************************************)
(* Model of the simulation core of Virtual-Bot-Environment-3D:             *)
(*   vbe_3d/core/robot.py  (Robot.act, connect, disconnect, reproduce,     *)
(*                          collect_resource)                              *)
(*   vbe_3d/core/world.py  (World.add_robot, remove_robot, add_static,     *)
(*                          remove_static, step)                           *)
(*   vbe_3d/core/static_element.py  (StaticElement.collect, update,         *)
(*                                   respawn)                              *)
(* Positions are kept in units of 1/PosScale so that the half-unit         *)
(* placements used by the tests (0.5, 1.5) are representable; energies,    *)
(* costs and resource values are whole numbers.                            *)
(***************************************************************************)
EXTENDS Integers, Sequences, FiniteSets, TLC

\* ---------------------------------------------------------------- bounds
MaxRobots == 3      \* Robot objects that can exist (pool of identities)
MaxAdded == 2       \* robots constructed by the caller (the others are children)
MaxStatics == 1     \* static elements in the world
MaxX == 4           \* x coordinates 0..MaxX (units of 1/PosScale)
MaxYZ == 2          \* y and z coordinates 0..MaxYZ
MaxEnergy == 3      \* largest max_energy given to a constructor
MaxSteps == 2       \* World.step calls in one behaviour
MaxCalls == 1       \* direct method calls (outside step) in one behaviour
MaxRespawn == 2     \* largest respawn_time given to a StaticElement
MaxUses == 2        \* largest max_uses given to a StaticElement
MaxElementCalls == 4  \* collect() / update() calls on one element
MaxFileOps == 3     \* save_state / load_state / from_dict calls and file damage

\* ------------------------------------------------------ program constants
PosScale == 2           \* position unit: 1.0 = PosScale
MoveStep == 1           \* robot.py:186  step = 1.0
PerceiveRadius == 10    \* robot.py:111  _get_nearby_objects(self.position, 10.0)
DefaultMaxEnergy == 100             \* robot.py:69
DefaultMovementCost == 1            \* robot.py:70
DefaultReproductionThreshold == 20  \* robot.py:71
CollectRange == 1       \* world.py:159  dist < 1.0
ConnectRange == 2       \* world.py:166  dist < 2.0
ReproduceRange == 1     \* world.py:172  dist < 1.0
WEAK == 1               \* robot.py:31
MEDIUM == 2             \* robot.py:32
STRONG == 3             \* robot.py:33
PERMANENT == 4          \* robot.py:34

Ids == 1..MaxRobots
\* colour unit: a channel value of 1.0 = ColorScale; every mean of two
\* colours is exact for as many generations as the pool can hold
ColorScale == 2 ^ MaxRobots
RobotState == {"IDLE", "MOVING", "COLLECTING", "REPRODUCING", "DEAD"}

Max(a, b) == IF a >= b THEN a ELSE b
Min(a, b) == IF a <= b THEN a ELSE b

\* inputs the environment supplies ------------------------------------------
Configs ==
    { [max_energy |-> MaxEnergy, movement_cost |-> 1, reproduction_threshold |-> 2,
       color |-> <<ColorScale, 0, 0>>],
      [max_energy |-> MaxEnergy - 1, movement_cost |-> 2, reproduction_threshold |-> 1,
       color |-> <<0, ColorScale, 0>>] }
StartPositions == { <<0, 0, 0>>, <<1, 0, 0>> }
StaticPositions == { <<2, 0, 0>> }
ResourceValues == { 0, 2 }
BrainActions == 0..6        \* what a brain's decide_action may return
ActInputs == 0..7           \* what a direct caller may pass to Robot.act

InBox(p) == /\ p[1] \in 0..MaxX
            /\ p[2] \in 0..MaxYZ
            /\ p[3] \in 0..MaxYZ

\* math.dist, squared, in position units
dist2(p, q) == (p[1] - q[1]) * (p[1] - q[1]) + (p[2] - q[2]) * (p[2] - q[2])
               + (p[3] - q[3]) * (p[3] - q[3])
\* math.dist(p, q) < range   (range in whole length units)
within(p, q, range) == dist2(p, q) < (range * PosScale) * (range * PosScale)
\* math.dist of two positions that differ along at most one axis
dist(p, q) == CHOOSE n \in 0..(MaxX + MaxYZ + PosScale) : n * n = dist2(p, q)

\* ------------------------------------------------------------------ Robot
\* BaseElement.world before the element is added to a world (None), and the
\* World object of the simulation
NoWorld == 0
ThisWorld == 1

RobotStats == [distance_traveled |-> 0, resources_collected |-> 0,
               connections_made |-> 0, offspring_produced |-> 0,
               energy_consumed |-> 0, lifetime |-> 0]

\* Robot.__init__; id is the value __init__ draws from _robot_id_counter
Robot(id, position, cfg) ==
    [made |-> TRUE, id |-> id, world |-> NoWorld,
     position |-> position, color |-> cfg.color,
     energy |-> cfg.max_energy, max_energy |-> cfg.max_energy,
     movement_cost |-> cfg.movement_cost,
     reproduction_threshold |-> cfg.reproduction_threshold,
     connections |-> [o \in Ids |-> 0],
     state |-> "IDLE", stats |-> RobotStats]

\* a pool slot no Robot object occupies yet
NoRobot == [Robot(0, <<0, 0, 0>>, CHOOSE c \in Configs : TRUE) EXCEPT !.made = FALSE]

\* moved with the +z and +y branches exchanged
moved_yz_swapped(p, action) ==
    CASE action = 1 -> <<p[1] + MoveStep * PosScale, p[2], p[3]>>
      [] action = 2 -> <<p[1] - MoveStep * PosScale, p[2], p[3]>>
      [] action = 3 -> <<p[1], p[2] + MoveStep * PosScale, p[3]>>
      [] action = 4 -> <<p[1], p[2], p[3] - MoveStep * PosScale>>
      [] action = 5 -> <<p[1], p[2], p[3] + MoveStep * PosScale>>
      [] action = 6 -> <<p[1], p[2] - MoveStep * PosScale, p[3]>>
      [] OTHER -> p

\* the position change of Robot.act (robot.py:192-203)
moved(p, action) ==
    CASE action = 1 -> <<p[1] + MoveStep * PosScale, p[2], p[3]>>
      [] action = 2 -> <<p[1] - MoveStep * PosScale, p[2], p[3]>>
      [] action = 3 -> <<p[1], p[2], p[3] + MoveStep * PosScale>>
      [] action = 4 -> <<p[1], p[2], p[3] - MoveStep * PosScale>>
      [] action = 5 -> <<p[1], p[2] + MoveStep * PosScale, p[3]>>
      [] action = 6 -> <<p[1], p[2] - MoveStep * PosScale, p[3]>>
      [] OTHER -> p

\* Robot.act on one robot record
act(rb, action) ==
    IF action = 0
    THEN [rb EXCEPT !.state = "IDLE"]
    ELSE LET new_pos == moved(rb.position, action)
             e == Max(0, rb.energy - rb.movement_cost)
         IN [rb EXCEPT !.position = new_pos,
                       !.stats.distance_traveled = @ + dist(rb.position, new_pos),
                       !.stats.energy_consumed = @ + rb.movement_cost,
                       !.stats.lifetime = @ + 1,
                       !.energy = e,
                       !.state = IF e <= 0 THEN "DEAD" ELSE "MOVING"]

\* connect that records a new edge in the caller's map only
connect_one_sided(R, self, other) ==
    IF R[self].connections[other] = 0
    THEN LET R1 == [R EXCEPT ![self].connections[other] = WEAK]
         IN [R1 EXCEPT ![self].stats.connections_made = @ + 1]
    ELSE LET level == R[self].connections[other]
         IN IF level < PERMANENT
            THEN LET R1 == [R EXCEPT ![self].connections[other] = level + 1]
                 IN [R1 EXCEPT ![other].connections[self] = level + 1]
            ELSE R

\* connect that strengthens an edge without looking at its level
connect_unlimited(R, self, other) ==
    IF R[self].connections[other] = 0
    THEN LET R1 == [R EXCEPT ![self].connections[other] = WEAK]
             R2 == [R1 EXCEPT ![other].connections[self] = WEAK]
         IN [R2 EXCEPT ![self].stats.connections_made = @ + 1]
    ELSE LET level == R[self].connections[other]
             R1 == [R EXCEPT ![self].connections[other] = level + 1]
         IN [R1 EXCEPT ![other].connections[self] = level + 1]

\* Robot.connect: R is the map of all robot objects, self and other are ids
connect(R, self, other) ==
    IF R[self].connections[other] = 0
    THEN LET R1 == [R EXCEPT ![self].connections[other] = WEAK]
             R2 == [R1 EXCEPT ![other].connections[self] = WEAK]
         IN [R2 EXCEPT ![self].stats.connections_made = @ + 1]
    ELSE LET level == R[self].connections[other]
         IN IF level < PERMANENT
            THEN LET R1 == [R EXCEPT ![self].connections[other] = level + 1]
                 IN [R1 EXCEPT ![other].connections[self] = level + 1]
            ELSE R

\* disconnect that lowers a Permanent edge like any other
disconnect_permanent_too(R, self, other) ==
    IF R[self].connections[other] # 0
    THEN LET level == R[self].connections[other]
         IN IF level > WEAK
            THEN LET R1 == [R EXCEPT ![self].connections[other] = level - 1]
                 IN [R1 EXCEPT ![other].connections[self] = level - 1]
            ELSE LET R1 == [R EXCEPT ![self].connections[other] = 0]
                 IN [R1 EXCEPT ![other].connections[self] = 0]
    ELSE R

\* Robot.disconnect
disconnect(R, self, other) ==
    IF R[self].connections[other] # 0
    THEN LET level == R[self].connections[other]
         IN IF level = PERMANENT
            THEN R
            ELSE IF level > WEAK
                 THEN LET R1 == [R EXCEPT ![self].connections[other] = level - 1]
                      IN [R1 EXCEPT ![other].connections[self] = level - 1]
                 ELSE LET R1 == [R EXCEPT ![self].connections[other] = 0]
                      IN [R1 EXCEPT ![other].connections[self] = 0]
    ELSE R

\* the guard of Robot.reproduce (robot.py:262): TRUE when a child is returned
can_reproduce(rb, partner) ==
    ~ (rb.energy < rb.reproduction_threshold
       \/ partner.energy < rb.reproduction_threshold)

\* the effect of a successful Robot.reproduce on the initiator
reproduce(rb) ==
    [rb EXCEPT !.state = "REPRODUCING", !.stats.offspring_produced = @ + 1]

\* child_color of Robot.reproduce (robot.py:269): (a+b)/2.0 per channel
child_color(a, b) == [k \in 1..3 |-> (a[k] + b[k]) \div 2]

\* the child a successful Robot.reproduce constructs
child_of(id, rb, partner) ==
    Robot(id, rb.position, [max_energy |-> rb.max_energy,
                            movement_cost |-> rb.movement_cost,
                            reproduction_threshold |-> rb.reproduction_threshold,
                            color |-> child_color(rb.color, partner.color)])

\* collect_resource without the max_energy cap
collect_resource_uncapped(rb, value) ==
    [rb EXCEPT !.state = "COLLECTING",
               !.energy = rb.energy + value,
               !.stats.resources_collected = @ + 1]

\* Robot.collect_resource
collect_resource(rb, value) ==
    [rb EXCEPT !.state = "COLLECTING",
               !.energy = Min(rb.max_energy, rb.energy + value),
               !.stats.resources_collected = @ + 1]

\* ---------------------------------------------------------- StaticElement
\* Python's None for the Optional[int] fields respawn_time, max_uses and
\* respawn_timer (their int values are never negative)
None == -1

\* StaticElement.__init__; `taken` is history: how often the element's value
\* has been handed out, by collect() or by World.step
StaticElement(position, resource_value, decay_rate, respawn_time, max_uses, is_collectible) ==
    [position |-> position, resource_value |-> resource_value,
     value |-> resource_value, decay_rate |-> decay_rate,
     respawn_time |-> respawn_time, max_uses |-> max_uses, current_uses |-> 0,
     is_collectible |-> is_collectible, respawn_timer |-> None, taken |-> 0,
     world |-> NoWorld]

\* StaticElement.respawn
respawn(el) ==
    [el EXCEPT !.is_collectible = TRUE, !.respawn_timer = None,
               !.resource_value = el.value, !.current_uses = 0]

\* update that respawns one tick late
update_late(el) ==
    LET ticked == IF el.respawn_timer # None
                  THEN IF el.respawn_timer - 1 < 0
                       THEN respawn([el EXCEPT !.respawn_timer = @ - 1])
                       ELSE [el EXCEPT !.respawn_timer = @ - 1]
                  ELSE el
    IN IF el.decay_rate > 0
       THEN [ticked EXCEPT !.resource_value = Max(0, @ - el.decay_rate)]
       ELSE ticked

\* StaticElement.update
update(el) ==
    LET ticked == IF el.respawn_timer # None
                  THEN IF el.respawn_timer - 1 <= 0
                       THEN respawn([el EXCEPT !.respawn_timer = @ - 1])
                       ELSE [el EXCEPT !.respawn_timer = @ - 1]
                  ELSE el
    IN IF el.decay_rate > 0
       THEN [ticked EXCEPT !.resource_value = Max(0, @ - el.decay_rate)]
       ELSE ticked

\* StaticElement.collect: the element afterwards and the value returned
collect(el) ==
    IF ~ el.is_collectible
    THEN [el |-> el, value |-> 0]
    ELSE LET used == IF el.max_uses # None
                     THEN [el EXCEPT !.current_uses = @ + 1,
                                     !.is_collectible =
                                         ~ (el.current_uses + 1 >= el.max_uses)]
                     ELSE el
             armed == IF el.respawn_time # None
                      THEN [used EXCEPT !.respawn_timer = el.respawn_time,
                                        !.is_collectible = FALSE]
                      ELSE used
         IN [el |-> [armed EXCEPT !.taken = @ + 1], value |-> el.resource_value]

\* the elements the world is given: plain resources, collectible or not
WorldStatics ==
    { StaticElement(position, value, 0, None, None, is_collectible) :
        position \in StaticPositions, value \in ResourceValues,
        is_collectible \in BOOLEAN }

\* the elements collect() and update() are exercised on
ElementInputs ==
    { StaticElement(position, 2, decay_rate, respawn_time, max_uses, is_collectible) :
        position \in StaticPositions, decay_rate \in {0, 1},
        respawn_time \in {None} \cup 0..MaxRespawn,
        max_uses \in {None} \cup 1..MaxUses,
        is_collectible \in BOOLEAN }

\* ------------------------------------------------------------ persistence
\* WorldStats()
WorldStats == [steps |-> 0, robots_created |-> 0, robots_destroyed |-> 0,
               resources_collected |-> 0, connections_made |-> 0,
               offspring_produced |-> 0]

\* World.time_step of the simulated world: set by __init__, written by
\* load_state only
time_step == 0

\* a path at which no file can be opened and parsed as JSON; of a file that
\* can, is_dict tells whether the JSON value in it is an object
NoFile == [readable |-> FALSE, is_dict |-> FALSE, time_step |-> 0,
           robots |-> <<>>, static |-> <<>>]

\* no World has been filled by load_state or from_dict yet; a filled one has
\* its own Robot objects, `robot`, in the places 1.. of its list `robots`
NoLoaded == [made |-> FALSE, robot |-> [r \in Ids |-> NoRobot], robots |-> <<>>,
             static_elements |-> <<>>, stats |-> WorldStats, time_step |-> 0]

\* the keyword defaults of Robot.__init__, with the colour given
DefaultConfig(color) ==
    [max_energy |-> DefaultMaxEnergy, movement_cost |-> DefaultMovementCost,
     reproduction_threshold |-> DefaultReproductionThreshold, color |-> color]

\* one robot's record in the data of save_state (world.py:251-260); the keys
\* of r.connections are written as the ids of those robots
robot_data(R, r) ==
    [well_formed |-> TRUE, position |-> R[r].position, color |-> R[r].color,
     energy |-> R[r].energy,
     connections |-> { R[o].id : o \in { o \in Ids : R[r].connections[o] # 0 } }]

\* one element's record in the data of save_state (world.py:264-270)
elem_data(el) ==
    [well_formed |-> TRUE, position |-> el.position,
     resource_value |-> el.resource_value]

\* the data save_state writes (world.py:244-270)
save_data(R, list, elems) ==
    [readable |-> TRUE, is_dict |-> TRUE, time_step |-> time_step,
     robots |-> [k \in 1..Len(list) |-> robot_data(R, list[k])],
     static |-> [k \in 1..Len(elems) |-> elem_data(elems[k])]]

\* World.save_state: what is at the path afterwards and what is raised;
\* open(filepath, 'w') fails on a path that cannot be written
save_state(R, list, elems, writable, old) ==
    IF writable
    THEN [file |-> save_data(R, list, elems), raised |-> "none"]
    ELSE [file |-> old, raised |-> "IOError"]

well_formed(d) == d.well_formed

\* world.py:332-338 for the record paired with robot k: r.connect(partner)
\* for every saved id that id_to_robot knows
RECURSIVE connect_ids(_, _, _)
connect_ids(R, k, ids) ==
    IF ids = {}
    THEN R
    ELSE LET c == CHOOSE c \in ids : TRUE
             partners == { p \in Ids : R[p].made /\ R[p].id = c }
         IN connect_ids(IF partners = {} THEN R
                        ELSE connect(R, k, CHOOSE p \in partners : TRUE),
                        k, ids \ {c})

\* world.py:332: zip(self.robots, data["robots"]), pairs k.. of it
RECURSIVE reconnect(_, _, _, _)
reconnect(R, n, data, k) ==
    IF k > n \/ k > Len(data)
    THEN R
    ELSE reconnect(connect_ids(R, k, data[k].connections), n, data, k + 1)

\* world.py:292-338: the world load_state fills from the data of a readable
\* file; a record that raises while it is read is printed and left out
loaded_world(f, counter) ==
    LET good == SelectSeq(f.robots, well_formed)
        elems == SelectSeq(f.static, well_formed)
        n == Len(good)
        R == [r \in Ids |->
                IF r <= n
                THEN [Robot(counter + r - 1, good[r].position,
                            DefaultConfig(good[r].color))
                        EXCEPT !.energy = good[r].energy]
                ELSE NoRobot]
    IN [made |-> TRUE,
        robot |-> reconnect(R, n, f.robots, 1),
        robots |-> [k \in 1..n |-> k],
        static_elements |->
            [k \in 1..Len(elems) |->
                StaticElement(elems[k].position, elems[k].resource_value,
                              0, None, None, TRUE)],
        stats |-> [WorldStats EXCEPT !.robots_created = n],
        time_step |-> f.time_step]

\* load_state that returns normally when the file cannot be read
load_state_silent(f, counter, old) ==
    IF ~ f.readable \/ ~ f.is_dict
    THEN [loaded |-> old, counter |-> counter, raised |-> "none"]
    ELSE [loaded |-> loaded_world(f, counter),
          counter |-> counter + Len(SelectSeq(f.robots, well_formed)),
          raised |-> "none"]

\* World.load_state on a new World: the world, the id counter and what is
\* raised; open / json.load fail before the world is touched, and data.get
\* fails on a JSON value that is no object
load_state(f, counter, old) ==
    IF ~ f.readable \/ ~ f.is_dict
    THEN [loaded |-> old, counter |-> counter, raised |-> "IOError"]
    ELSE [loaded |-> loaded_world(f, counter),
          counter |-> counter + Len(SelectSeq(f.robots, well_formed)),
          raised |-> "none"]

\* Robot.to_dict (the brain export aside)
robot_to_dict(R, r) ==
    [id |-> R[r].id, pos |-> R[r].position, col |-> R[r].color,
     energy |-> R[r].energy, max_energy |-> R[r].max_energy,
     movement_cost |-> R[r].movement_cost,
     reproduction_threshold |-> R[r].reproduction_threshold,
     connections |-> { R[o].id : o \in { o \in Ids : R[r].connections[o] # 0 } },
     state |-> R[r].state, stats |-> R[r].stats]

\* World.to_dict
to_dict(R, list, elems, st) ==
    [robots |-> [k \in 1..Len(list) |-> robot_to_dict(R, list[k])],
     static_elements |->
         [k \in 1..Len(elems) |->
             [position |-> elems[k].position,
              resource_value |-> elems[k].resource_value]],
     stats |-> st]

\* Robot.from_dict: `id` is the value the constructor draws, which the
\* method then overwrites with the saved id
robot_from_dict(id, data) ==
    [Robot(id, data.pos,
           [max_energy |-> data.max_energy, movement_cost |-> data.movement_cost,
            reproduction_threshold |-> data.reproduction_threshold,
            color |-> data.col])
       EXCEPT !.id = data.id, !.energy = data.energy, !.state = data.state,
              !.stats = data.stats]

\* World.from_dict
from_dict(data, counter) ==
    [made |-> TRUE,
     robot |-> [r \in Ids |->
                  IF r <= Len(data.robots)
                  THEN robot_from_dict(counter + r - 1, data.robots[r])
                  ELSE NoRobot],
     robots |-> [k \in 1..Len(data.robots) |-> k],
     static_elements |->
         [k \in 1..Len(data.static_elements) |->
             StaticElement(data.static_elements[k].position,
                           data.static_elements[k].resource_value,
                           0, None, None, TRUE)],
     stats |-> data.stats,
     time_step |-> time_step]

\* ------------------------------------------------------------------ World
VARIABLES
    robot,            \* every Robot object: id -> record (made = FALSE: not constructed)
    robots,           \* World.robots: list of robot ids
    static_elements,  \* World.static_elements: list of StaticElement records
    stats,            \* World.stats
    pc,               \* where World.step is: "idle" outside a call
    snap,             \* the copy self.robots[:] World.step iterates over
    ri,               \* index into snap of the robot whose turn it is
    oj,               \* index into World.robots of `other` in the reproduction loop
    overflow,         \* children in World.robots beyond the pool of identities:
                      \* 0 = none, else 1 or 2 = their number is odd or even
    hist,             \* history: the last operation and the state it started from
    robot_id_counter, \* the next value of itertools.count() in robot.py
    spatial_index,    \* World._spatial_index: pairs of a cell key and an object
    file,             \* what is stored at the path given to save_state/load_state
    loaded,           \* the World that the last load_state or from_dict filled
    engine            \* the objects the engine shows: those whose last call
                      \* was add_object, not remove_object

vars == <<robot, robots, static_elements, stats, pc, snap, ri, oj, overflow, hist,
          robot_id_counter, spatial_index, file, loaded, engine>>

NoStart == [active |-> FALSE, robots |-> <<>>, robots_destroyed |-> 0,
            offspring_produced |-> 0, due |-> {}, dead |-> {}, static |-> <<>>,
            connections |-> <<>>, pair |-> FALSE]

\* the six offsets of an observation when perceive saw no resource and no
\* other robot
NoObs == [res |-> <<0, 0, 0>>, bot |-> <<0, 0, 0>>]

\* history record written by every operation
Did(op, self, other, arg, ok, start, chosen, died) ==
    [op |-> op, self |-> self, other |-> other, arg |-> arg, ok |-> ok,
     pre_self |-> IF self \in Ids THEN robot[self] ELSE NoRobot,
     pre_other |-> IF other \in Ids THEN robot[other] ELSE NoRobot,
     pre_static |-> static_elements, ret |-> 0,
     center |-> <<0, 0, 0>>, found |-> {}, obs |-> NoObs, raised |-> "none",
     start |-> start, idle_only |-> chosen, died |-> died, added |-> hist.added,
     calls |-> IF pc = "idle" /\ op \notin {"add_robot", "add_static", "step_begin",
                                           "update_spatial_index", "get_nearby_objects"}
               THEN hist.calls + 1 ELSE hist.calls]

\* an engine that has been given no object (tests/test_world.py:20, a Mock):
\* the robots it shows, and how many static elements
NoObjects == [robots |-> {}, static |-> 0]

\* a direct call is still within the budget of the behaviour
MayCall == pc = "idle" /\ hist.calls < MaxCalls

Made == { r \in Ids : robot[r].made }
InWorld(list, r) == \E k \in 1..Len(list) : list[k] = r
FreeIds == Ids \ Made
NextFree == CHOOSE r \in FreeIds : \A q \in FreeIds : r <= q

\* list.remove(x): drop the first occurrence
RemoveFirst(list, x) ==
    LET k == CHOOSE n \in 1..Len(list) :
                 list[n] = x /\ \A m \in 1..(n - 1) : list[m] # x
    IN SubSeq(list, 1, k - 1) \o SubSeq(list, k + 1, Len(list))

\* the robots an act that exhausts the energy marks as having died
DiedAfterAct(r, before, after) ==
    IF before.energy > 0 /\ after.energy = 0 /\ after.state = "DEAD"
    THEN hist.died \cup {r} ELSE hist.died \ {r}

Init ==
    /\ robot = [r \in Ids |-> NoRobot]
    /\ robots = <<>>
    /\ static_elements = <<>>
    /\ stats = WorldStats
    /\ pc = "idle"
    /\ snap = <<>>
    /\ ri = 0
    /\ oj = 0
    /\ overflow = 0
    /\ robot_id_counter = 0
    /\ spatial_index = {}
    /\ file = NoFile
    /\ loaded = NoLoaded
    /\ engine = NoObjects
    /\ hist = [op |-> "none", self |-> 0, other |-> 0, arg |-> 0, ok |-> FALSE,
               pre_self |-> NoRobot, pre_other |-> NoRobot,
               pre_static |-> <<>>, ret |-> 0, start |-> NoStart,
               center |-> <<0, 0, 0>>, found |-> {}, obs |-> NoObs, raised |-> "none",
               idle_only |-> TRUE, died |-> {}, added |-> 0, calls |-> 0]

\* ---- World membership ----------------------------------------------------
\* World.add_robot(Robot(position, ...)): construct a robot and admit it
AddNewRobot ==
    /\ pc = "idle"
    /\ FreeIds # {}
    /\ hist.added < MaxAdded
    /\ \E position \in StartPositions, cfg \in Configs :
          /\ robot' = [robot EXCEPT
                          ![NextFree] = Robot(robot_id_counter, position, cfg)]
          /\ robot_id_counter' = robot_id_counter + 1
          /\ robots' = Append(robots, NextFree)
          /\ stats' = [stats EXCEPT !.robots_created = @ + 1]
          /\ hist' = [Did("add_robot", NextFree, 0, 0, TRUE, NoStart, TRUE, hist.died)
                       EXCEPT !.added = @ + 1]
    /\ UNCHANGED <<static_elements, pc, snap, ri, oj, overflow>>
    /\ engine' = [engine EXCEPT !.robots = @ \cup {NextFree}]
    /\ UNCHANGED <<spatial_index, file, loaded>>

\* World.add_robot(r) for a robot that exists and is not in the world
AddRobot ==
    /\ MayCall
    /\ \E r \in Made :
          /\ ~ InWorld(robots, r)
          /\ robots' = Append(robots, r)
          /\ stats' = [stats EXCEPT !.robots_created = @ + 1]
          /\ engine' = [engine EXCEPT !.robots = @ \cup {r}]
          /\ hist' = Did("add_robot_again", r, 0, 0, TRUE, NoStart, TRUE, hist.died)
    /\ UNCHANGED <<robot, static_elements, pc, snap, ri, oj, overflow>>
    /\ UNCHANGED <<robot_id_counter, spatial_index, file, loaded>>

\* remove_robot that counts a removal whether or not the robot is a member
remove_robot_counting(list, st, eng, r) ==
    IF InWorld(list, r)
    THEN [robots |-> RemoveFirst(list, r),
          stats |-> [st EXCEPT !.robots_destroyed = @ + 1],
          engine |-> [eng EXCEPT !.robots = @ \ {r}]]
    ELSE [robots |-> list, stats |-> [st EXCEPT !.robots_destroyed = @ + 1],
          engine |-> eng]

\* World.remove_robot: the list, the statistics and the engine afterwards
remove_robot(list, st, eng, r) ==
    IF InWorld(list, r)
    THEN [robots |-> RemoveFirst(list, r),
          stats |-> [st EXCEPT !.robots_destroyed = @ + 1],
          engine |-> [eng EXCEPT !.robots = @ \ {r}]]
    ELSE [robots |-> list, stats |-> st, engine |-> eng]

\* World.remove_robot(r) for any robot that exists, in the world or not
RemoveRobot ==
    /\ MayCall
    /\ \E r \in Made :
          LET w == remove_robot(robots, stats, engine, r)
          IN /\ robots' = w.robots
             /\ stats' = w.stats
             /\ engine' = w.engine
             /\ hist' = Did("remove_robot", r, 0, 0, InWorld(robots, r), NoStart,
                            TRUE, hist.died \ {r})
    /\ UNCHANGED <<robot, static_elements, pc, snap, ri, oj, overflow>>
    /\ UNCHANGED <<robot_id_counter, spatial_index, file, loaded>>

\* World.add_static(StaticElement(position, resource_value=value))
AddStatic ==
    /\ pc = "idle"
    /\ Len(static_elements) < MaxStatics
    /\ \E el \in WorldStatics :
          /\ static_elements' = Append(static_elements, el)
          /\ hist' = Did("add_static", 0, 0, el.resource_value, TRUE, NoStart, TRUE,
                         hist.died)
    /\ engine' = [engine EXCEPT !.static = @ + 1]
    /\ UNCHANGED <<robot, robots, stats, pc, snap, ri, oj, overflow>>
    /\ UNCHANGED <<robot_id_counter, spatial_index, file, loaded>>

\* World.remove_static of an element of the world
RemoveStatic ==
    /\ MayCall
    /\ \E k \in 1..Len(static_elements) :
          /\ static_elements' = SubSeq(static_elements, 1, k - 1)
                                \o SubSeq(static_elements, k + 1, Len(static_elements))
          /\ hist' = Did("remove_static", 0, 0, k, TRUE, NoStart, TRUE, hist.died)
    /\ engine' = [engine EXCEPT !.static = @ - 1]
    /\ UNCHANGED <<robot, robots, stats, pc, snap, ri, oj, overflow>>
    /\ UNCHANGED <<robot_id_counter, spatial_index, file, loaded>>

\* ---- direct calls of the Robot methods -----------------------------------
Act ==
    /\ MayCall
    /\ \E r \in Made, action \in ActInputs :
          /\ InBox(moved(robot[r].position, action))
          /\ robot' = [robot EXCEPT ![r] = act(robot[r], action)]
          /\ hist' = Did("act", r, 0, action, TRUE, NoStart, TRUE,
                         DiedAfterAct(r, robot[r], act(robot[r], action)))
    /\ UNCHANGED <<robots, static_elements, stats, pc, snap, ri, oj, overflow>>
    /\ UNCHANGED <<robot_id_counter, spatial_index, file, loaded, engine>>

Connect ==
    /\ MayCall
    /\ \E a \in Made, b \in Made :
          /\ a # b
          /\ robot' = connect(robot, a, b)
          /\ hist' = Did("connect", a, b, 0, TRUE, NoStart, TRUE, hist.died)
    /\ UNCHANGED <<robots, static_elements, stats, pc, snap, ri, oj, overflow>>
    /\ UNCHANGED <<robot_id_counter, spatial_index, file, loaded, engine>>

Disconnect ==
    /\ MayCall
    /\ \E a \in Made, b \in Made :
          /\ a # b
          /\ robot' = disconnect(robot, a, b)
          /\ hist' = Did("disconnect", a, b, 0, TRUE, NoStart, TRUE, hist.died)
    /\ UNCHANGED <<robots, static_elements, stats, pc, snap, ri, oj, overflow>>
    /\ UNCHANGED <<robot_id_counter, spatial_index, file, loaded, engine>>

CollectResource ==
    /\ MayCall
    /\ \E r \in Made, value \in ResourceValues :
          /\ robot' = [robot EXCEPT ![r] = collect_resource(robot[r], value)]
          /\ hist' = Did("collect_resource", r, 0, value, TRUE, NoStart, TRUE,
                         hist.died \ {r})
    /\ UNCHANGED <<robots, static_elements, stats, pc, snap, ri, oj, overflow>>
    /\ UNCHANGED <<robot_id_counter, spatial_index, file, loaded, engine>>

\* Robot.reproduce called directly: the child is constructed, not admitted
Reproduce ==
    /\ MayCall
    /\ \E a \in Made, b \in Made :
          /\ a # b
          /\ IF can_reproduce(robot[a], robot[b])
             THEN /\ FreeIds # {}
                  /\ robot' = [robot EXCEPT
                                  ![a] = reproduce(robot[a]),
                                  ![NextFree] = child_of(robot_id_counter, robot[a],
                                                         robot[b])]
                  /\ robot_id_counter' = robot_id_counter + 1
                  /\ hist' = Did("reproduce", a, b, NextFree, TRUE, NoStart, TRUE,
                                 hist.died \ {a})
             ELSE /\ robot' = robot
                  /\ UNCHANGED robot_id_counter
                  /\ hist' = Did("reproduce", a, b, 0, FALSE, NoStart, TRUE, hist.died)
    /\ UNCHANGED <<robots, static_elements, stats, pc, snap, ri, oj, overflow>>
    /\ UNCHANGED <<spatial_index, file, loaded, engine>>

\* ---- the spatial index ---------------------------------------------------
\* int(p) of a coordinate: Python's int() of a float drops the fraction
int(c) == IF c >= 0 THEN c \div PosScale ELSE - ((- c) \div PosScale)

\* the grid key of a position (world.py:68-69)
key_of(position) == <<int(position[1]), int(position[2]), int(position[3])>>

\* the objects of the world, self.robots + self.static_elements: a robot by
\* its identity, a static element by its place in the list
Objects(list, elems) ==
    { <<"robot", list[k]>> : k \in 1..Len(list) }
       \cup { <<"static", k>> : k \in 1..Len(elems) }

\* obj.position as it is now
position_of(R, elems, obj) ==
    IF obj[1] = "robot" THEN R[obj[2]].position ELSE elems[obj[2]].position

\* World._update_spatial_index: the index it leaves
update_spatial_index(R, list, elems) ==
    { [key |-> key_of(position_of(R, elems, obj)), obj |-> obj] :
         obj \in Objects(list, elems) }

\* World._get_nearby_objects; radius in position units
get_nearby_objects(index, position, radius) ==
    LET n == int(radius)
        c == key_of(position)
    IN { e.obj : e \in { e \in index :
                           \A a \in 1..3 : /\ e.key[a] >= c[a] - n
                                           /\ e.key[a] <= c[a] + n } }

\* the centres and radii (position units) the index is queried with
QueryCenters == { <<0, 0, 0>>, <<1, 0, 0>>, <<-1, 0, 0>> }
QueryRadii == { 1, PosScale, PerceiveRadius * PosScale }

UpdateSpatialIndex ==
    /\ pc = "idle"
    /\ spatial_index' = update_spatial_index(robot, robots, static_elements)
    /\ hist' = Did("update_spatial_index", 0, 0, 0, TRUE, NoStart, TRUE, hist.died)
    /\ UNCHANGED <<robot, robots, static_elements, stats, pc, snap, ri, oj, overflow>>
    /\ UNCHANGED <<robot_id_counter, file, loaded, engine>>

GetNearbyObjects ==
    /\ pc = "idle"
    /\ \E position \in QueryCenters, radius \in QueryRadii :
          hist' = [Did("get_nearby_objects", 0, 0, radius, TRUE, NoStart, TRUE,
                       hist.died)
                     EXCEPT !.center = position,
                            !.found = get_nearby_objects(spatial_index, position,
                                                         radius)]
    /\ UNCHANGED <<robot, robots, static_elements, stats, pc, snap, ri, oj, overflow>>
    /\ UNCHANGED <<robot_id_counter, spatial_index, file, loaded, engine>>

\* the candidates of perceive nearest to p: the loop keeps the first it meets
\* at the least distance, in the iteration order of a set
nearest(R, elems, cands, p) ==
    { c \in cands : \A d \in cands :
         dist2(p, position_of(R, elems, c)) <= dist2(p, position_of(R, elems, d)) }

\* the offset perceive reports to one of the nearest, or zeros without any
offsets(R, elems, cands, p) ==
    IF cands = {}
    THEN { <<0, 0, 0>> }
    ELSE { [a \in 1..3 |-> position_of(R, elems, c)[a] - p[a]] :
              c \in nearest(R, elems, cands, p) }

\* Robot.perceive, the first six values (the offsets to the nearest resource
\* and to the nearest other robot): every observation it can return
perceive(R, elems, index, r) ==
    LET nearby == get_nearby_objects(index, R[r].position, PerceiveRadius * PosScale)
        res == { o \in nearby : o[1] = "static" }
        bots == { o \in nearby : o[1] = "robot" /\ o[2] # r }
    IN { [res |-> a, bot |-> b] :
            a \in offsets(R, elems, res, R[r].position),
            b \in offsets(R, elems, bots, R[r].position) }

\* ---- World.step ----------------------------------------------------------
\* the resource check of World.step (world.py:158-162) for one robot:
\* elements k.. of the list, result [rb, elems, n] = robot record, the
\* elements (only their history field is written) and collections
RECURSIVE collect_loop(_, _, _, _)
collect_loop(rb, elems, k, n) ==
    IF k > Len(elems)
    THEN [rb |-> rb, elems |-> elems, n |-> n]
    ELSE IF within(rb.position, elems[k].position, CollectRange)
         THEN collect_loop(collect_resource(rb, elems[k].resource_value),
                           [elems EXCEPT ![k].taken = @ + 1], k + 1, n + 1)
         ELSE collect_loop(rb, elems, k + 1, n)

\* the connection check of World.step (world.py:165-168) for robot r:
\* entries k.. of World.robots, result [R, n] = robot map and connect calls
RECURSIVE connect_loop(_, _, _, _, _)
connect_loop(R, r, list, k, n) ==
    IF k > Len(list)
    THEN [R |-> R, n |-> n]
    ELSE IF list[k] # r /\ within(R[r].position, R[list[k]].position, ConnectRange)
         THEN connect_loop(connect(R, r, list[k]), r, list, k + 1, n + 1)
         ELSE connect_loop(R, r, list, k + 1, n)

\* what a step remembers of the state it started from
StartOf == [active |-> TRUE, robots |-> robots,
            robots_destroyed |-> stats.robots_destroyed,
            offspring_produced |-> stats.offspring_produced,
            due |-> { r \in hist.died : InWorld(robots, r) },
            dead |-> { r \in Made : InWorld(robots, r) /\ robot[r].state = "DEAD" },
            static |-> static_elements,
            connections |-> [r \in Ids |-> robot[r].connections],
            pair |-> /\ Len(robots) = 2
                     /\ robots[1] # robots[2]
                     /\ \A k \in 1..2 :
                           /\ robot[robots[k]].state # "DEAD"
                           /\ robot[robots[k]].energy
                                 >= robot[robots[k]].reproduction_threshold
                     /\ within(robot[robots[1]].position, robot[robots[2]].position,
                               ReproduceRange)]

\* world.py:137-140: count the step, copy the robot list
StepBegin ==
    /\ pc = "idle"
    /\ stats.steps < MaxSteps
    /\ stats' = [stats EXCEPT !.steps = @ + 1]
    /\ snap' = robots
    /\ ri' = 1
    /\ pc' = "turn"
    /\ hist' = Did("step_begin", 0, 0, 0, TRUE, StartOf, TRUE, hist.died)
    /\ UNCHANGED <<robot, robots, static_elements, oj, overflow>>
    /\ UNCHANGED <<robot_id_counter, spatial_index, file, loaded, engine>>

\* world.py:141-143: a robot found Dead is removed and its turn skipped
StepRemoveDead ==
    /\ pc = "turn"
    /\ ri <= Len(snap)
    /\ robot[snap[ri]].state = "DEAD"
    /\ LET w == remove_robot(robots, stats, engine, snap[ri])
       IN /\ robots' = w.robots
          /\ stats' = w.stats
          /\ engine' = w.engine
    /\ ri' = ri + 1
    /\ hist' = Did("step_remove", snap[ri], 0, 0, TRUE, hist.start, hist.idle_only,
                   hist.died \ {snap[ri]})
    /\ UNCHANGED <<robot, static_elements, pc, snap, oj, overflow>>
    /\ UNCHANGED <<robot_id_counter, spatial_index, file, loaded>>

\* world.py:146-155: perceive, decide_action, act
StepAct ==
    /\ pc = "turn"
    /\ ri <= Len(snap)
    /\ robot[snap[ri]].state # "DEAD"
    /\ \E action \in BrainActions,
          obs \in perceive(robot, static_elements, spatial_index, snap[ri]) :
          /\ InBox(moved(robot[snap[ri]].position, action))
          /\ robot' = [robot EXCEPT ![snap[ri]] = act(robot[snap[ri]], action)]
          /\ hist' = [Did("act", snap[ri], 0, action, TRUE, hist.start,
                          hist.idle_only /\ action = 0,
                          DiedAfterAct(snap[ri], robot[snap[ri]],
                                       act(robot[snap[ri]], action)))
                        EXCEPT !.obs = obs]
    /\ pc' = "collect"
    /\ UNCHANGED <<robots, static_elements, stats, snap, ri, oj, overflow>>
    /\ UNCHANGED <<robot_id_counter, spatial_index, file, loaded, engine>>

\* world.py:158-162: the robot collects every element closer than 1.0
StepCollect ==
    /\ pc = "collect"
    /\ LET c == collect_loop(robot[snap[ri]], static_elements, 1, 0)
       IN /\ robot' = [robot EXCEPT ![snap[ri]] = c.rb]
          /\ static_elements' = c.elems
          /\ stats' = [stats EXCEPT !.resources_collected = @ + c.n]
          /\ hist' = Did("step_collect", snap[ri], 0, c.n, c.n > 0, hist.start,
                         hist.idle_only, hist.died)
    /\ pc' = "connect"
    /\ UNCHANGED <<robots, snap, ri, oj, overflow>>
    /\ UNCHANGED <<robot_id_counter, spatial_index, file, loaded, engine>>

\* world.py:165-168: the robot connects to every other robot closer than 2.0
StepConnect ==
    /\ pc = "connect"
    /\ LET c == connect_loop(robot, snap[ri], robots, 1, 0)
       IN /\ robot' = c.R
          /\ stats' = [stats EXCEPT !.connections_made = @ + c.n]
          /\ hist' = Did("step_connect", snap[ri], 0, c.n, c.n > 0, hist.start,
                         hist.idle_only, hist.died)
    /\ pc' = "reproduce"
    /\ oj' = 1
    /\ UNCHANGED <<robots, static_elements, snap, ri, overflow>>
    /\ UNCHANGED <<robot_id_counter, spatial_index, file, loaded, engine>>

\* world.py:171-176: one iteration of the reproduction loop, over the live
\* list World.robots, to which add_robot appends the children
StepReproduce ==
    /\ pc = "reproduce"
    /\ oj <= Len(robots)
    /\ LET r == snap[ri]
           other == robots[oj]
       IN IF other # r
             /\ within(robot[r].position, robot[other].position, ReproduceRange)
             /\ can_reproduce(robot[r], robot[other])
          THEN /\ stats' = [stats EXCEPT !.robots_created = @ + 1,
                                         !.offspring_produced = @ + 1]
               /\ hist' = Did("step_reproduce", r, other, 0, TRUE, hist.start,
                              hist.idle_only, hist.died)
               /\ IF FreeIds # {}
                  THEN /\ robot' = [robot EXCEPT
                                       ![r] = reproduce(robot[r]),
                                       ![NextFree] = child_of(robot_id_counter,
                                                              robot[r], robot[other])]
                       /\ robot_id_counter' = robot_id_counter + 1
                       /\ robots' = Append(robots, NextFree)
                       /\ engine' = [engine EXCEPT !.robots = @ \cup {NextFree}]
                       /\ UNCHANGED overflow
                  ELSE /\ robot' = [robot EXCEPT ![r] = reproduce(robot[r])]
                       /\ overflow' = 1
                       /\ UNCHANGED <<robots, robot_id_counter, engine>>
          ELSE /\ hist' = Did("step_reproduce", r, other, 0, FALSE, hist.start,
                              hist.idle_only, hist.died)
               /\ UNCHANGED <<robot, robots, stats, overflow, robot_id_counter,
                              engine>>
    /\ oj' = oj + 1
    /\ UNCHANGED <<static_elements, pc, snap, ri>>
    /\ UNCHANGED <<spatial_index, file, loaded>>

\* The same iteration when `other` is a child beyond the pool.  Every such
\* child was constructed by the robot whose turn it is, at that robot's
\* position and with its configuration; a success appends one more of them,
\* so the loop index never gets past the end of the list (only the energy of
\* such a child is read, which does not depend on the partner it was made
\* with).  The statistics and the id counter are counted up to the first
\* child beyond the pool only.
StepReproduceBeyond ==
    /\ pc = "reproduce"
    /\ oj > Len(robots)
    /\ overflow # 0
    /\ can_reproduce(robot[snap[ri]], child_of(0, robot[snap[ri]], robot[snap[ri]]))
    /\ overflow' = 3 - overflow
    /\ hist' = Did("step_reproduce", snap[ri], 0, 0, TRUE, hist.start,
                   hist.idle_only, hist.died)
    /\ UNCHANGED <<robot, robots, static_elements, stats, pc, snap, ri, oj>>
    /\ UNCHANGED <<robot_id_counter, spatial_index, file, loaded, engine>>

\* the reproduction loop has visited the whole list: next robot's turn
StepNext ==
    /\ pc = "reproduce"
    /\ oj > Len(robots)
    /\ overflow # 0 =>
          ~ can_reproduce(robot[snap[ri]], child_of(0, robot[snap[ri]], robot[snap[ri]]))
    /\ ri' = ri + 1
    /\ pc' = "turn"
    /\ hist' = Did("step_next", snap[ri], 0, 0, TRUE, hist.start, hist.idle_only,
                   hist.died)
    /\ UNCHANGED <<robot, robots, static_elements, stats, snap, oj, overflow>>
    /\ UNCHANGED <<robot_id_counter, spatial_index, file, loaded, engine>>

\* the loop over the copy is exhausted: step() returns
StepEnd ==
    /\ pc = "turn"
    /\ ri > Len(snap)
    /\ pc' = "idle"
    /\ hist' = Did("step_end", 0, 0, 0, TRUE, hist.start, hist.idle_only, hist.died)
    /\ UNCHANGED <<robot, robots, static_elements, stats, snap, ri, oj, overflow>>
    /\ UNCHANGED <<robot_id_counter, spatial_index, file, loaded, engine>>

\* world.py:146-149 when perceive, decide_action or act raises (RLBrain's
\* decide_action raises ValueError on an observation of another length than
\* its observation_dim): step() has no handler, the exception leaves it
StepRaise ==
    /\ pc = "turn"
    /\ ri <= Len(snap)
    /\ robot[snap[ri]].state # "DEAD"
    /\ pc' = "idle"
    /\ hist' = [Did("step_raise", snap[ri], 0, ri, FALSE, hist.start,
                    hist.idle_only, hist.died)
                  EXCEPT !.raised = "ValueError"]
    /\ UNCHANGED <<robot, robots, static_elements, stats, snap, ri, oj, overflow>>
    /\ UNCHANGED <<robot_id_counter, spatial_index, file, loaded, engine>>

StepRun == \/ StepRemoveDead \/ StepAct \/ StepCollect \/ StepConnect
           \/ StepReproduce \/ StepReproduceBeyond \/ StepNext \/ StepEnd

Next ==
    \/ AddNewRobot \/ AddRobot \/ RemoveRobot \/ AddStatic \/ RemoveStatic
    \/ Act \/ Connect \/ Disconnect \/ CollectResource \/ Reproduce
    \/ StepBegin
    \/ StepRemoveDead \/ StepAct \/ StepCollect \/ StepConnect
    \/ StepReproduce \/ StepReproduceBeyond \/ StepNext \/ StepEnd

Spec == Init /\ [][Next]_vars

\* The world driven through World only (no direct Robot method calls); a call
\* of step() that has started keeps executing until it returns.
WorldNext == AddNewRobot \/ AddStatic \/ StepBegin \/ StepRun

LiveSpec == Init /\ [][WorldNext]_vars /\ WF_vars(StepRun)

\* The same world with robots whose brain can fail in their turn
FaultNext == WorldNext \/ StepRaise

FaultSpec == Init /\ [][FaultNext]_vars

\* ---- saving and loading ---------------------------------------------------
\* a file operation is still within the budget of the behaviour
MayUseFile == pc = "idle" /\ hist.calls < MaxFileOps

\* World.save_state(filepath), to a path that can be written or cannot
SaveState ==
    /\ MayUseFile
    /\ \E writable \in BOOLEAN :
          LET s == save_state(robot, robots, static_elements, writable, file)
          IN /\ file' = s.file
             /\ hist' = [Did("save_state", 0, 0, 0, writable, NoStart, TRUE, hist.died)
                           EXCEPT !.raised = s.raised]
    /\ UNCHANGED <<robot, robots, static_elements, stats, pc, snap, ri, oj, overflow>>
    /\ UNCHANGED <<robot_id_counter, spatial_index, loaded, engine>>

\* World(engine).load_state(filepath)
LoadState ==
    /\ MayUseFile
    /\ LET l == load_state(file, robot_id_counter, loaded)
       IN /\ loaded' = l.loaded
          /\ robot_id_counter' = l.counter
          /\ hist' = [Did("load_state", 0, 0, 0, file.readable, NoStart, TRUE,
                          hist.died)
                        EXCEPT !.raised = l.raised]
    /\ UNCHANGED <<robot, robots, static_elements, stats, pc, snap, ri, oj, overflow>>
    /\ UNCHANGED <<spatial_index, file, engine>>

\* World.from_dict(world.to_dict(), engine)
FromDict ==
    /\ MayUseFile
    /\ loaded' = from_dict(to_dict(robot, robots, static_elements, stats),
                           robot_id_counter)
    /\ robot_id_counter' = robot_id_counter + Len(robots)
    /\ hist' = Did("from_dict", 0, 0, 0, TRUE, NoStart, TRUE, hist.died)
    /\ UNCHANGED <<robot, robots, static_elements, stats, pc, snap, ri, oj, overflow>>
    /\ UNCHANGED <<spatial_index, file, engine>>

\* the saved file is edited outside the program: one robot or element record
\* loses its position or color
DamageFile ==
    /\ MayUseFile
    /\ file.readable
    /\ \/ \E k \in 1..Len(file.robots) :
             /\ file.robots[k].well_formed
             /\ file' = [file EXCEPT !.robots[k].well_formed = FALSE]
       \/ \E k \in 1..Len(file.static) :
             /\ file.static[k].well_formed
             /\ file' = [file EXCEPT !.static[k].well_formed = FALSE]
    /\ hist' = Did("damage_file", 0, 0, 0, TRUE, NoStart, TRUE, hist.died)
    /\ UNCHANGED <<robot, robots, static_elements, stats, pc, snap, ri, oj, overflow>>
    /\ UNCHANGED <<robot_id_counter, spatial_index, loaded, engine>>

\* a world is built and stepped through World, then saved and loaded
PersistNext ==
    \/ (hist.calls = 0 /\ WorldNext)
    \/ SaveState \/ LoadState \/ FromDict \/ DamageFile

PersistSpec == Init /\ [][PersistNext]_vars

\* a world is filled, then saved and loaded, with no step in between
FileNext ==
    \/ (hist.calls = 0 /\ (AddNewRobot \/ AddStatic))
    \/ SaveState \/ LoadState \/ DamageFile

FileSpec == Init /\ [][FileNext]_vars

\* ---- the Robot methods on robots prepared the way the unit tests do -------
\* (tests/test_robot.py sets energy and connections on fresh robots)
InputPositions == { <<0, 0, 0>>, <<1, 0, 0>>, <<MaxX, MaxYZ, MaxYZ>> }

Prepared(id, position, cfg, energy, other, level) ==
    [Robot(id, position, cfg) EXCEPT !.energy = energy,
                                     !.state = IF energy = 0 THEN "DEAD" ELSE "IDLE",
                                     !.connections[other] = level]

RobotInit ==
    /\ \E p1 \in InputPositions, p2 \in InputPositions, c1 \in Configs, c2 \in Configs :
          \E e1 \in 0..c1.max_energy, e2 \in 0..c2.max_energy, level \in 0..PERMANENT :
             robot = [r \in Ids |->
                         IF r = 1 THEN Prepared(0, p1, c1, e1, 2, level)
                         ELSE IF r = 2 THEN Prepared(1, p2, c2, e2, 1, level)
                         ELSE NoRobot]
    /\ robots = <<>>
    /\ static_elements = <<>>
    /\ stats = WorldStats
    /\ pc = "idle"
    /\ snap = <<>>
    /\ ri = 0
    /\ oj = 0
    /\ overflow = 0
    /\ robot_id_counter = 2
    /\ spatial_index = {}
    /\ file = NoFile
    /\ loaded = NoLoaded
    /\ engine = NoObjects
    /\ hist = [op |-> "none", self |-> 0, other |-> 0, arg |-> 0, ok |-> FALSE,
               pre_self |-> NoRobot, pre_other |-> NoRobot,
               pre_static |-> <<>>, ret |-> 0, start |-> NoStart,
               center |-> <<0, 0, 0>>, found |-> {}, obs |-> NoObs, raised |-> "none",
               idle_only |-> TRUE, died |-> {}, added |-> 0, calls |-> 0]

RobotNext == Act \/ Connect \/ Disconnect \/ CollectResource \/ Reproduce

RobotSpec == RobotInit /\ [][RobotNext]_vars

\* ---- the spatial index of a world that is filled and whose robots move ----
IndexNext ==
    \/ AddNewRobot \/ AddStatic \/ Act
    \/ UpdateSpatialIndex \/ GetNearbyObjects

IndexSpec == Init /\ [][IndexNext]_vars

\* ---- the StaticElement methods on one element -----------------------------
ElementInit ==
    /\ robot = [r \in Ids |-> NoRobot]
    /\ robots = <<>>
    /\ \E el \in ElementInputs : static_elements = <<el>>
    /\ stats = WorldStats
    /\ pc = "idle"
    /\ snap = <<>>
    /\ ri = 0
    /\ oj = 0
    /\ overflow = 0
    /\ robot_id_counter = 0
    /\ spatial_index = {}
    /\ file = NoFile
    /\ loaded = NoLoaded
    /\ engine = NoObjects
    /\ hist = [op |-> "none", self |-> 0, other |-> 0, arg |-> 0, ok |-> FALSE,
               pre_self |-> NoRobot, pre_other |-> NoRobot,
               pre_static |-> <<>>, ret |-> 0, start |-> NoStart,
               center |-> <<0, 0, 0>>, found |-> {}, obs |-> NoObs, raised |-> "none",
               idle_only |-> TRUE, died |-> {}, added |-> 0, calls |-> 0]

\* element.collect() on element k of the list
ElementCollect ==
    /\ pc = "idle"
    /\ hist.calls < MaxElementCalls
    /\ \E k \in 1..Len(static_elements) :
          LET c == collect(static_elements[k])
          IN /\ static_elements' = [static_elements EXCEPT ![k] = c.el]
             /\ hist' = [Did("collect", 0, 0, k, static_elements[k].is_collectible,
                             NoStart, TRUE, hist.died) EXCEPT !.ret = c.value]
    /\ UNCHANGED <<robot, robots, stats, pc, snap, ri, oj, overflow>>
    /\ UNCHANGED <<robot_id_counter, spatial_index, file, loaded, engine>>

\* element.update() on element k of the list
ElementUpdate ==
    /\ pc = "idle"
    /\ hist.calls < MaxElementCalls
    /\ \E k \in 1..Len(static_elements) :
          /\ static_elements' = [static_elements EXCEPT ![k] = update(static_elements[k])]
          /\ hist' = Did("update", 0, 0, k, TRUE, NoStart, TRUE, hist.died)
    /\ UNCHANGED <<robot, robots, stats, pc, snap, ri, oj, overflow>>
    /\ UNCHANGED <<robot_id_counter, spatial_index, file, loaded, engine>>

ElementNext == ElementCollect \/ ElementUpdate

ElementSpec == ElementInit /\ [][ElementNext]_vars

TypeOK == pc \in {"idle", "turn", "collect", "connect", "reproduce"}

\* ------------------------------------------------------------ properties
Beyond == IF overflow # 0 THEN 1 ELSE 0
Connected(a, b) == robot[a].connections[b] # 0

\* C1: every robot that exists has 0 <= energy <= max_energy, in every state
\* reached by direct act / collect_resource / reproduce calls and steps.
C1_EnergyInvariant ==
    \A r \in Made : 0 <= robot[r].energy /\ robot[r].energy <= robot[r].max_energy

\* a collect whose value would take the energy past max_energy has happened
C1_Witness ==
    /\ hist.op = "collect_resource"
    /\ hist.pre_self.energy + hist.arg > hist.pre_self.max_energy
    /\ robot[hist.self].energy = robot[hist.self].max_energy

\* C2: B is in A.connections exactly when A is in B.connections, and both
\* entries hold the same level (0 stands for "no entry").
C2_ConnectionSymmetry ==
    \A a, b \in Made : robot[a].connections[b] = robot[b].connections[a]

\* two robots are connected above Weak and one of them has left the world
C2_Witness ==
    \E a, b \in Made :
        /\ a # b
        /\ robot[a].connections[b] >= MEDIUM
        /\ InWorld(robots, a)
        /\ ~ InWorld(robots, b)

\* C3: every call of World.step() returns.
C3_StepReturns == (pc # "idle") ~> (pc = "idle")

\* C4: a step of a world of exactly two robots in reproduction range, both
\* with energy at or above their threshold and both choosing action 0, ends
\* with exactly one more robot and offspring_produced one higher.  A step
\* that starts this way removes no robot, so it can only end that way if it
\* never holds more than one child.
C4_ExactlyOneChild ==
    (hist.start.active /\ hist.start.pair /\ hist.idle_only) =>
        /\ Len(robots) + Beyond <= Len(hist.start.robots) + 1
        /\ stats.offspring_produced <= hist.start.offspring_produced + 1
        /\ hist.op = "step_end" =>
              /\ Len(robots) + Beyond = Len(hist.start.robots) + 1
              /\ stats.offspring_produced = hist.start.offspring_produced + 1

\* C5: a successful reproduction inside step() leaves each parent with half
\* the energy it had before, strictly less than before.
C5_ParentsPayHalf ==
    (hist.op = "step_reproduce" /\ hist.ok /\ hist.other \in Ids) =>
        /\ 2 * robot[hist.self].energy = hist.pre_self.energy
        /\ robot[hist.self].energy < hist.pre_self.energy
        /\ 2 * robot[hist.other].energy = hist.pre_other.energy
        /\ robot[hist.other].energy < hist.pre_other.energy

\* C6: a movement that uses up the energy ends with energy 0 and state Dead,
\* and the step() that follows ends with the robot out of World.robots and
\* counted in robots_destroyed.
C6_DeadRobotRemoved ==
    /\ (hist.op = "act" /\ hist.arg \in 1..6
        /\ hist.pre_self.energy <= hist.pre_self.movement_cost) =>
           (robot[hist.self].energy = 0 /\ robot[hist.self].state = "DEAD")
    /\ hist.op = "step_end" =>
           /\ \A r \in hist.start.due : ~ InWorld(robots, r)
           /\ stats.robots_destroyed
                >= hist.start.robots_destroyed + Cardinality(hist.start.due)

\* C7: inside step(), a robot that is Dead stays Dead and its energy is not
\* raised.
C7_DeadIsTerminal ==
    [][pc # "idle" =>
          \A r \in Made : robot[r].state = "DEAD" =>
              /\ robot'[r].state = "DEAD"
              /\ robot'[r].energy <= robot[r].energy]_vars

\* C8: act with a code in 1..6 moves the robot by 1.0 along the axis of the
\* table {1:+x, 2:-x, 3:+z, 4:-z, 5:+y, 6:-y} only, takes movement_cost from the
\* energy (not below 0) and leaves the state Moving, or Dead at energy 0.
C8_Table ==
    [a \in 1..6 |->
        CASE a = 1 -> <<PosScale, 0, 0>>
          [] a = 2 -> <<0 - PosScale, 0, 0>>
          [] a = 3 -> <<0, 0, PosScale>>
          [] a = 4 -> <<0, 0, 0 - PosScale>>
          [] a = 5 -> <<0, PosScale, 0>>
          [] a = 6 -> <<0, 0 - PosScale, 0>>]

C8_Movement ==
    (hist.op = "act" /\ hist.arg \in 1..6) =>
        LET old == hist.pre_self
            new == robot[hist.self]
            expected == IF old.energy - old.movement_cost > 0
                        THEN old.energy - old.movement_cost ELSE 0
        IN /\ \A k \in 1..3 :
                 new.position[k] = old.position[k] + C8_Table[hist.arg][k]
           /\ new.energy = expected
           /\ new.state = IF expected = 0 THEN "DEAD" ELSE "MOVING"

\* a robot has moved down the y axis and is still alive
C8_Witness ==
    /\ hist.op = "act"
    /\ hist.arg = 6
    /\ robot[hist.self].state = "MOVING"
    /\ robot[hist.self].position[2] = hist.pre_self.position[2] - PosScale

\* C9: act with a code outside 0..6 leaves position, energy,
\* distance_traveled and energy_consumed as they were.
C9_UnknownActionIgnored ==
    (hist.op = "act" /\ hist.arg \notin 0..6) =>
        /\ robot[hist.self].position = hist.pre_self.position
        /\ robot[hist.self].energy = hist.pre_self.energy
        /\ robot[hist.self].stats.distance_traveled
             = hist.pre_self.stats.distance_traveled
        /\ robot[hist.self].stats.energy_consumed
             = hist.pre_self.stats.energy_consumed

\* C10: connect on an unconnected pair stores Weak in both maps, on an edge
\* below Permanent stores the level plus one in both maps, on a Permanent
\* edge changes neither map; every stored level is in 1..4.
C10_Connect ==
    /\ \A a, b \in Made : robot[a].connections[b] \in 0..PERMANENT
    /\ hist.op = "connect" =>
          LET before == hist.pre_self.connections[hist.other]
              mine == robot[hist.self].connections[hist.other]
              theirs == robot[hist.other].connections[hist.self]
          IN /\ before = 0 => (mine = WEAK /\ theirs = WEAK)
             /\ before \in WEAK..STRONG => (mine = before + 1 /\ theirs = before + 1)
             /\ before = PERMANENT =>
                   /\ robot[hist.self].connections = hist.pre_self.connections
                   /\ robot[hist.other].connections = hist.pre_other.connections

\* connect has been called on a Permanent edge
C10_Witness ==
    /\ hist.op = "connect"
    /\ hist.pre_self.connections[hist.other] = PERMANENT
    /\ robot[hist.self].connections[hist.other] = PERMANENT

\* C11: a connect call that creates a new edge adds one to connections_made
\* of the caller and of the other robot; a connect on an existing edge adds
\* nothing to either.
C11_ConnectStats ==
    hist.op = "connect" =>
        LET before == hist.pre_self.connections[hist.other]
            mine == robot[hist.self].stats.connections_made
                      - hist.pre_self.stats.connections_made
            theirs == robot[hist.other].stats.connections_made
                        - hist.pre_other.stats.connections_made
        IN /\ before = 0 => (mine = 1 /\ theirs = 1)
           /\ before # 0 => (mine = 0 /\ theirs = 0)

\* C12: disconnect leaves a Permanent edge alone, lowers an edge above Weak
\* by one level in both maps, removes a Weak edge from both maps and changes
\* nothing on an unconnected pair; an edge at Permanent stays at Permanent on
\* both sides whatever is called afterwards.
C12_Disconnect ==
    /\ [](hist.op = "disconnect" =>
            LET before == hist.pre_self.connections[hist.other]
                mine == robot[hist.self].connections[hist.other]
                theirs == robot[hist.other].connections[hist.self]
            IN /\ before = PERMANENT => (mine = PERMANENT /\ theirs = PERMANENT)
               /\ before \in MEDIUM..STRONG =>
                     (mine = before - 1 /\ theirs = before - 1)
               /\ before = WEAK => (mine = 0 /\ theirs = 0)
               /\ before \in {0, PERMANENT} =>
                     /\ robot[hist.self] = hist.pre_self
                     /\ robot[hist.other] = hist.pre_other)
    /\ [][\A a, b \in Made :
              robot[a].connections[b] = PERMANENT =>
                 /\ robot'[a].connections[b] = PERMANENT
                 /\ robot'[b].connections[a] = PERMANENT]_vars

\* disconnect has been called on a Permanent edge
C12_Witness ==
    /\ hist.op = "disconnect"
    /\ hist.pre_self.connections[hist.other] = PERMANENT
    /\ robot[hist.other].connections[hist.self] = PERMANENT

\* C13: reproduce returns no child exactly when the initiator's energy is
\* below the initiator's reproduction_threshold or the partner's energy is
\* below the partner's reproduction_threshold, and then neither robot changes.
C13_ReproduceGate ==
    hist.op = "reproduce" =>
        /\ (~ hist.ok) <=>
              \/ hist.pre_self.energy < hist.pre_self.reproduction_threshold
              \/ hist.pre_other.energy < hist.pre_other.reproduction_threshold
        /\ (~ hist.ok) =>
              /\ robot[hist.self] = hist.pre_self
              /\ robot[hist.other] = hist.pre_other

\* C14: a successful reproduce returns a new robot whose colour is the
\* channel-wise mean of the parents' colours, and leaves both parents in state
\* Reproducing with offspring_produced one higher.
C14_ReproduceSuccess ==
    (hist.op = "reproduce" /\ hist.ok) =>
        /\ hist.arg \in Ids \ {hist.self, hist.other}
        /\ robot[hist.arg].made
        /\ \A k \in 1..3 :
              2 * robot[hist.arg].color[k]
                 = hist.pre_self.color[k] + hist.pre_other.color[k]
        /\ robot[hist.self].state = "REPRODUCING"
        /\ robot[hist.self].stats.offspring_produced
              = hist.pre_self.stats.offspring_produced + 1
        /\ robot[hist.other].state = "REPRODUCING"
        /\ robot[hist.other].stats.offspring_produced
              = hist.pre_other.stats.offspring_produced + 1

\* C15: the child of a successful reproduce is at a position different from
\* the initiator's and from the partner's.
C15_ChildOffset ==
    (hist.op = "reproduce" /\ hist.ok) =>
        /\ robot[hist.arg].position # hist.pre_self.position
        /\ robot[hist.arg].position # hist.pre_other.position

\* C16: collect() on an element that is not collectible returns 0 and leaves
\* the element as it was; a robot that has only non-collectible elements
\* within collection range during step() gains no energy and no collection is
\* counted for it.
C16_NonCollectibleInert ==
    /\ (hist.op = "collect" /\ ~ hist.pre_static[hist.arg].is_collectible) =>
          /\ hist.ret = 0
          /\ static_elements[hist.arg] = hist.pre_static[hist.arg]
    /\ (hist.op = "step_collect"
        /\ \A k \in 1..Len(hist.pre_static) :
              within(hist.pre_self.position, hist.pre_static[k].position, CollectRange)
                 => ~ hist.pre_static[k].is_collectible) =>
          /\ robot[hist.self].energy = hist.pre_self.energy
          /\ robot[hist.self].stats.resources_collected
                = hist.pre_self.stats.resources_collected
          /\ hist.arg = 0

\* C17: a collectible resource without respawn_time and without max_uses
\* whose value a robot collected during step() is out of
\* World.static_elements when that step returns (so it gives nothing in a
\* later step).
C17_CollectedResourceRemoved ==
    hist.op = "step_end" =>
        \A k \in 1..Len(static_elements) :
            (/\ static_elements[k].is_collectible
             /\ static_elements[k].respawn_time = None
             /\ static_elements[k].max_uses = None) =>
                static_elements[k].taken = 0

\* C18: a resource with max_uses = n hands out its value at most n times:
\* once it has done so n times it is not collectible and collect() returns 0,
\* whatever collect() and update() calls come in between and whatever its
\* respawn_time is.
C18_MaxUses ==
    \A k \in 1..Len(static_elements) :
        LET el == static_elements[k]
        IN el.max_uses # None =>
              /\ el.taken <= el.max_uses
              /\ el.taken >= el.max_uses => ~ el.is_collectible
              /\ (hist.op = "collect" /\ hist.arg = k
                  /\ hist.pre_static[k].taken >= el.max_uses) => hist.ret = 0

\* C19 as stated: after a collect of a resource with respawn_time = d >= 1 the
\* countdown is d; while it is armed the resource is not collectible and
\* collect() returns 0; a tick with more than one tick left lowers the
\* countdown by one; the tick that uses up the countdown leaves the resource
\* collectible, resource_value at its original amount, current_uses 0 and the
\* countdown disarmed.
C19_Respawn ==
    \A k \in 1..Len(static_elements) :
        LET el == static_elements[k]
            pre == hist.pre_static[k]
        IN /\ (hist.op = "collect" /\ hist.arg = k /\ hist.ok
               /\ el.respawn_time # None /\ el.respawn_time >= 1) =>
                  (el.respawn_timer = el.respawn_time /\ ~ el.is_collectible)
           /\ el.respawn_timer # None => ~ el.is_collectible
           /\ (hist.op = "collect" /\ hist.arg = k /\ pre.respawn_timer # None) =>
                  (hist.ret = 0 /\ el = pre)
           /\ (hist.op = "update" /\ hist.arg = k /\ pre.respawn_timer # None
               /\ pre.respawn_timer > 1) =>
                  (el.respawn_timer = pre.respawn_timer - 1 /\ ~ el.is_collectible)
           /\ (hist.op = "update" /\ hist.arg = k /\ pre.respawn_timer = 1) =>
                  /\ el.is_collectible
                  /\ el.resource_value = el.value
                  /\ el.current_uses = 0
                  /\ el.respawn_timer = None

\* C19 amended: the same, except that the tick that uses up the countdown
\* also applies that tick's decay, so resource_value is the original amount
\* less decay_rate (not below 0): the original amount when decay_rate is 0.
C19_RespawnThenDecay ==
    \A k \in 1..Len(static_elements) :
        LET el == static_elements[k]
            pre == hist.pre_static[k]
        IN /\ (hist.op = "collect" /\ hist.arg = k /\ hist.ok
               /\ el.respawn_time # None /\ el.respawn_time >= 1) =>
                  (el.respawn_timer = el.respawn_time /\ ~ el.is_collectible)
           /\ el.respawn_timer # None => ~ el.is_collectible
           /\ (hist.op = "collect" /\ hist.arg = k /\ pre.respawn_timer # None) =>
                  (hist.ret = 0 /\ el = pre)
           /\ (hist.op = "update" /\ hist.arg = k /\ pre.respawn_timer # None
               /\ pre.respawn_timer > 1) =>
                  (el.respawn_timer = pre.respawn_timer - 1 /\ ~ el.is_collectible)
           /\ (hist.op = "update" /\ hist.arg = k /\ pre.respawn_timer = 1) =>
                  /\ el.is_collectible
                  /\ el.resource_value
                       = (IF el.value - el.decay_rate > 0
                          THEN el.value - el.decay_rate ELSE 0)
                  /\ el.decay_rate = 0 => el.resource_value = el.value
                  /\ el.current_uses = 0
                  /\ el.respawn_timer = None

\* a resource with respawn_time 2 and max_uses set has been collected and
\* ticked twice: the second tick has just respawned it
C19_Witness ==
    /\ hist.op = "update"
    /\ hist.pre_static[hist.arg].respawn_timer = 1
    /\ hist.pre_static[hist.arg].current_uses = 1
    /\ static_elements[hist.arg].respawn_time = 2
    /\ static_elements[hist.arg].is_collectible
    /\ static_elements[hist.arg].taken = 1

\* C20: a collect() on a collectible element raises current_uses by exactly
\* one, with or without max_uses.
C20_CollectCountsUse ==
    (hist.op = "collect" /\ hist.pre_static[hist.arg].is_collectible) =>
        static_elements[hist.arg].current_uses
           = hist.pre_static[hist.arg].current_uses + 1

\* C23: after remove_robot(r), also the removal of a dead robot by step(),
\* no robot that remains in the world has r in its connections; hence, in a
\* world that is only added to and stepped, every key of an in-world
\* robot's connections is a robot of the world.
C23_RemovalPurgesConnections ==
    /\ (hist.op \in {"remove_robot", "step_remove"} /\ hist.ok) =>
          \A q \in Made :
             InWorld(robots, q) => robot[q].connections[hist.self] = 0
    /\ (hist.calls = 0 /\ overflow = 0) =>
          \A q \in Made, o \in Ids :
             (InWorld(robots, q) /\ robot[q].connections[o] # 0) => InWorld(robots, o)

\* C29: after add_robot(x) or add_static(x), x.world is the world.
C29_WorldSetOnAdd ==
    /\ hist.op \in {"add_robot", "add_robot_again"} =>
          robot[hist.self].world = ThisWorld
    /\ hist.op = "add_static" =>
          static_elements[Len(static_elements)].world = ThisWorld

\* C21: queried right after _update_spatial_index, _get_nearby_objects
\* returns every robot and static element of the world whose distance to the
\* centre is at most the radius R, and nothing whose cell is outside the cube
\* of ceil(R) cells around the centre's cell.
C21_NearbySuperset ==
    (/\ hist.op = "get_nearby_objects"
     /\ spatial_index = update_spatial_index(robot, robots, static_elements)) =>
        /\ \A obj \in Objects(robots, static_elements) :
              dist2(position_of(robot, static_elements, obj), hist.center)
                    <= hist.arg * hist.arg
                 => obj \in hist.found
        /\ \A obj \in hist.found :
              \A a \in 1..3 :
                 LET n == (hist.arg + PosScale - 1) \div PosScale
                     k == key_of(position_of(robot, static_elements, obj))[a]
                 IN /\ k >= key_of(hist.center)[a] - n
                    /\ k <= key_of(hist.center)[a] + n

\* C30: every step rebuilds the spatial index from the current positions
\* before any robot perceives; so a robot's observation in a step has a
\* non-zero offset to the nearest resource when resources lie within 10
\* units of it, all at other positions than its own, and likewise for the
\* other robots of the world.
C30_StepRebuildsIndex ==
    /\ hist.op = "step_begin" =>
          spatial_index = update_spatial_index(robot, robots, static_elements)
    /\ (hist.op = "act" /\ pc = "collect") =>
          LET p == hist.pre_self.position
              res == { k \in 1..Len(hist.pre_static) :
                          dist2(p, hist.pre_static[k].position)
                             <= (PerceiveRadius * PosScale) * (PerceiveRadius * PosScale) }
              bots == { o \in Made \ {hist.self} :
                          /\ InWorld(robots, o)
                          /\ dist2(p, robot[o].position)
                                <= (PerceiveRadius * PosScale) * (PerceiveRadius * PosScale) }
          IN /\ (res # {} /\ \A k \in res : hist.pre_static[k].position # p)
                   => hist.obs.res # <<0, 0, 0>>
             /\ (bots # {} /\ \A o \in bots : robot[o].position # p)
                   => hist.obs.bot # <<0, 0, 0>>

\* C22: when perceive, decide_action or act raises in a robot's turn, the
\* turn is skipped: step() goes on with the next robot of its list and no
\* exception reaches its caller.
C22_FaultSkipsTurn ==
    hist.op = "step_raise" =>
        /\ hist.raised = "none"
        /\ pc = "turn"
        /\ ri = hist.arg + 1

\* the world `loaded` was filled, by a load_state that returned normally
\* from the file a save_state of the world as it is now writes, or by
\* from_dict from the to_dict of the world as it is now
LoadedBack ==
    \/ /\ hist.op = "load_state"
       /\ hist.raised = "none"
       /\ file = save_data(robot, robots, static_elements)
    \/ hist.op = "from_dict"

\* C24: a world saved and loaded back has as many robots and static elements,
\* in the same order with the same positions, energies and resource values,
\* and the same step counter: the number of step() calls before the save.
C24_RoundTrip ==
    LoadedBack =>
        /\ loaded.made
        /\ Len(loaded.robots) = Len(robots)
        /\ \A k \in 1..Len(robots) :
              /\ loaded.robot[loaded.robots[k]].position = robot[robots[k]].position
              /\ loaded.robot[loaded.robots[k]].energy = robot[robots[k]].energy
        /\ Len(loaded.static_elements) = Len(static_elements)
        /\ \A k \in 1..Len(static_elements) :
              /\ loaded.static_elements[k].position = static_elements[k].position
              /\ loaded.static_elements[k].resource_value
                    = static_elements[k].resource_value
        /\ \/ loaded.stats.steps = stats.steps
           \/ hist.op = "load_state" /\ loaded.time_step = stats.steps

\* C25: a world saved and loaded back has the same connection topology: two
\* loaded robots are connected exactly when the saved robots in their places
\* were, and a loaded robot has no other connection.
C25_RoundTripConnections ==
    (LoadedBack /\ Len(loaded.robots) = Len(robots)) =>
        /\ \A i, j \in 1..Len(robots) :
              (loaded.robot[loaded.robots[i]].connections[loaded.robots[j]] # 0)
                 <=> (robot[robots[i]].connections[robots[j]] # 0)
        /\ \A i \in 1..Len(robots), o \in Ids :
              loaded.robot[loaded.robots[i]].connections[o] # 0
                 => InWorld(loaded.robots, o)

\* C26: save_state to a path that cannot be written and load_state from a
\* path that is missing or cannot be read raise IOError to the caller.
C26_IOErrorSurfaced ==
    /\ (hist.op = "save_state" /\ ~ hist.ok) => hist.raised = "IOError"
    /\ (hist.op = "load_state" /\ ~ file.readable) => hist.raised = "IOError"

\* a load from a path that holds nothing readable, after a save to a path
\* that could not be written, in a world that has robots
C26_Witness ==
    /\ hist.op = "load_state"
    /\ ~ file.readable
    /\ hist.calls = 2
    /\ Len(robots) > 0
    /\ hist.raised = "IOError"
    /\ ~ loaded.made

\* C27: load_state of a readable file with a malformed robot or element
\* record does not return normally.
C27_MalformedRecordReported ==
    (/\ hist.op = "load_state"
     /\ file.readable
     /\ \/ \E k \in 1..Len(file.robots) : ~ file.robots[k].well_formed
        \/ \E k \in 1..Len(file.static) : ~ file.static[k].well_formed) =>
        hist.raised # "none"

\* C28: the ids given at construction increase strictly (every robot's id is
\* below the counter), and no two robots that exist, in this world or in the
\* loaded one, have the same id.
C28_UniqueIds ==
    LET there == { <<"this", r>> : r \in Made }
                    \cup { <<"loaded", r>> : r \in { r \in Ids : loaded.robot[r].made } }
        id_of(x) == IF x[1] = "this" THEN robot[x[2]].id ELSE loaded.robot[x[2]].id
    IN /\ \A x \in there : id_of(x) < robot_id_counter
       /\ \A x, y \in there : x # y => id_of(x) # id_of(y)

\* C40: the robots load_state builds from a save of a world whose robots all
\* have 0 <= energy <= max_energy still have 0 <= energy <= max_energy and
\* carry the max_energy, movement_cost and reproduction_threshold of the
\* robots that were saved.
C40_LoadKeepsConfig ==
    (/\ hist.op = "load_state"
     /\ hist.raised = "none"
     /\ file = save_data(robot, robots, static_elements)
     /\ \A k \in 1..Len(robots) :
           /\ 0 <= robot[robots[k]].energy
           /\ robot[robots[k]].energy <= robot[robots[k]].max_energy) =>
        /\ Len(loaded.robots) = Len(robots)
        /\ \A k \in 1..Len(robots) :
              LET new == loaded.robot[loaded.robots[k]]
                  old == robot[robots[k]]
              IN /\ 0 <= new.energy
                 /\ new.energy <= new.max_energy
                 /\ new.max_energy = old.max_energy
                 /\ new.movement_cost = old.movement_cost
                 /\ new.reproduction_threshold = old.reproduction_threshold

\* C31: within a step no collection, connection or reproduction takes effect
\* on any robot before every live robot of the step has done its act.
C31_ActBarrier ==
    (/\ hist.op \in {"step_collect", "step_connect", "step_reproduce"}
     /\ hist.ok) =>
        \A k \in (ri + 1)..Len(snap) : robot[snap[k]].state = "DEAD"

\* C32: the robots that are Dead when a step starts are out of the world
\* before a live robot acts in that step, and no live robot's connect or
\* reproduce in that step takes one of them as its partner.
C32_DeadPrunedFirst ==
    /\ (hist.op = "act" /\ pc = "collect") =>
          \A d \in hist.start.dead : ~ InWorld(robots, d)
    /\ hist.op = "step_connect" =>
          \A d \in hist.start.dead :
             robot[hist.self].connections[d] = hist.pre_self.connections[d]
    /\ (hist.op = "step_reproduce" /\ hist.ok) => hist.other \notin hist.start.dead

\* C33: in one step connect is applied once to a pair of robots: between
\* the start and the end of a step the level of a pair that is in the world
\* throughout rises by at most one, so a pair unconnected at the start ends
\* the step at WEAK at most.
C33_ConnectOncePerPair ==
    hist.op = "step_end" =>
        \A a \in Ids : \A b \in Ids \ {a} :
           (/\ InWorld(hist.start.robots, a) /\ InWorld(hist.start.robots, b)
            /\ InWorld(robots, a) /\ InWorld(robots, b)) =>
               /\ robot[a].connections[b] <= hist.start.connections[a][b] + 1
               /\ robot[a].connections[b] = robot[b].connections[a]

\* C34: when the connection pass of a step runs for a robot, every other
\* robot of the world it was connected to below PERMANENT and that is now
\* farther away than the connection threshold has disconnect applied: the
\* level of the pair is one below what it was, on both sides.
C34_DisconnectBeyondRange ==
    hist.op = "step_connect" =>
        \A o \in Ids \ {hist.self} :
           (/\ InWorld(robots, o)
            /\ hist.pre_self.connections[o] \in WEAK..STRONG
            /\ ~ within(robot[hist.self].position, robot[o].position,
                        ConnectRange)) =>
               /\ robot[hist.self].connections[o] = hist.pre_self.connections[o] - 1
               /\ robot[o].connections[hist.self] = hist.pre_self.connections[o] - 1

\* C35: a step adds a child only for a pair whose connection level is
\* STRONG or PERMANENT, and only in a step whose index is a multiple of 50.
C35_ReproductionGated ==
    (hist.op = "step_reproduce" /\ hist.ok) =>
        /\ hist.pre_self.connections[hist.other] >= STRONG
        /\ stats.steps % 50 = 0

\* ---- a world whose element decays or respawns --------------------------------
\* the elements of this world: collectible, with a decay rate or a respawn
\* time (static_element.py:20-39)
TickElements ==
    { el \in ElementInputs :
        /\ el.is_collectible
        /\ el.max_uses = None
        /\ (el.decay_rate > 0 \/ el.respawn_time # None) }

\* World(engine) followed by add_static of one such element
TickInit ==
    /\ robot = [r \in Ids |-> NoRobot]
    /\ robots = <<>>
    /\ \E el \in TickElements : static_elements = <<el>>
    /\ stats = WorldStats
    /\ pc = "idle"
    /\ snap = <<>>
    /\ ri = 0
    /\ oj = 0
    /\ overflow = 0
    /\ robot_id_counter = 0
    /\ spatial_index = {}
    /\ file = NoFile
    /\ loaded = NoLoaded
    /\ engine = NoObjects
    /\ hist = [op |-> "none", self |-> 0, other |-> 0, arg |-> 0, ok |-> FALSE,
               pre_self |-> NoRobot, pre_other |-> NoRobot,
               pre_static |-> <<>>, ret |-> 0, start |-> NoStart,
               center |-> <<0, 0, 0>>, found |-> {}, obs |-> NoObs, raised |-> "none",
               idle_only |-> TRUE, died |-> {}, added |-> 0, calls |-> 0]

\* robots are added, the element is collected from, and the world steps
TickNext == AddNewRobot \/ ElementCollect \/ StepBegin \/ StepRun

TickSpec == TickInit /\ [][TickNext]_vars

\* C36: after a step every static element of the world has been ticked once:
\* it is what StaticElement.update makes of the element the step started
\* with (an armed countdown one lower or the element respawned, the value
\* lowered by decay_rate and floored at 0).
C36_StepTicksElements ==
    hist.op = "step_end" =>
        /\ Len(static_elements) = Len(hist.start.static)
        /\ \A k \in 1..Len(static_elements) :
              [static_elements[k] EXCEPT !.taken = 0]
                  = [update(hist.start.static[k]) EXCEPT !.taken = 0]

\* ---- one world added to, removed from, stepped, saved and loaded into ---------
\* World.load_state on a world that has robots and elements (world.py:288-349):
\* open / json.load fail before the world is touched; then every robot and
\* element is removed through remove_robot / remove_static; then data.get
\* raises on a JSON value that is no object; else the records are added
\* through add_static / add_robot.  The Robot objects of the cleared world
\* are not kept: the robots afterwards are the ones the call constructed.
load_state_here(f, R, list, elems, st, eng, counter) ==
    IF ~ f.readable
    THEN [robot |-> R, robots |-> list, static_elements |-> elems, stats |-> st,
          engine |-> eng, counter |-> counter, raised |-> "IOError"]
    ELSE LET cleared == [st EXCEPT !.robots_destroyed = @ + Len(list)]
             hidden == [robots |-> eng.robots \ { list[k] : k \in 1..Len(list) },
                        static |-> eng.static - Len(elems)]
         IN IF ~ f.is_dict
            THEN [robot |-> R, robots |-> <<>>, static_elements |-> <<>>,
                  stats |-> cleared, engine |-> hidden, counter |-> counter,
                  raised |-> "IOError"]
            ELSE LET w == loaded_world(f, counter)
                 IN [robot |-> w.robot, robots |-> w.robots,
                     static_elements |-> w.static_elements,
                     stats |-> [cleared EXCEPT !.robots_created = @ + Len(w.robots)],
                     engine |-> [robots |-> { w.robots[k] : k \in 1..Len(w.robots) },
                                 static |-> hidden.static + Len(w.static_elements)],
                     counter |-> counter + Len(w.robots), raised |-> "none"]

\* world.load_state(filepath) on the simulated world; hist.start keeps the
\* lists the call started with
LoadStateHere ==
    /\ MayUseFile
    /\ LET l == load_state_here(file, robot, robots, static_elements, stats, engine,
                                robot_id_counter)
       IN /\ robot' = l.robot
          /\ robots' = l.robots
          /\ static_elements' = l.static_elements
          /\ stats' = l.stats
          /\ engine' = l.engine
          /\ robot_id_counter' = l.counter
          /\ hist' = [Did("load_state_here", 0, 0, 0, l.raised = "none",
                          [NoStart EXCEPT !.robots = robots,
                                          !.static = static_elements],
                          TRUE, {})
                        EXCEPT !.raised = l.raised]
    /\ UNCHANGED <<pc, snap, ri, oj, overflow>>
    /\ UNCHANGED <<spatial_index, file, loaded>>

\* World.add_robot(r) for a robot that is in the world already: add_robot
\* has no membership test (world.py:101-103)
AddRobotTwice ==
    /\ pc = "idle"
    /\ hist.added < MaxAdded
    /\ \E r \in Made :
          /\ InWorld(robots, r)
          /\ robots' = Append(robots, r)
          /\ stats' = [stats EXCEPT !.robots_created = @ + 1]
          /\ engine' = [engine EXCEPT !.robots = @ \cup {r}]
          /\ hist' = [Did("add_robot", r, 0, 0, TRUE, NoStart, TRUE, hist.died)
                       EXCEPT !.added = @ + 1]
    /\ UNCHANGED <<robot, static_elements, pc, snap, ri, oj, overflow>>
    /\ UNCHANGED <<robot_id_counter, spatial_index, file, loaded>>

\* the saved file is replaced outside the program by one that holds another
\* JSON value than an object, such as []
DamageShape ==
    /\ MayUseFile
    /\ file.readable
    /\ file.is_dict
    /\ file' = [readable |-> TRUE, is_dict |-> FALSE, time_step |-> 0,
                robots |-> <<>>, static |-> <<>>]
    /\ hist' = Did("damage_shape", 0, 0, 0, TRUE, NoStart, TRUE, hist.died)
    /\ UNCHANGED <<robot, robots, static_elements, stats, pc, snap, ri, oj, overflow>>
    /\ UNCHANGED <<robot_id_counter, spatial_index, loaded, engine>>

\* a world is built and stepped, then removed from, saved and loaded into
ReloadNext ==
    \/ (hist.calls = 0 /\ (WorldNext \/ AddRobotTwice))
    \/ RemoveRobot \/ RemoveStatic
    \/ SaveState \/ DamageShape \/ LoadStateHere

ReloadSpec == Init /\ [][ReloadNext]_vars

\* C37: in every state reached by add_robot, remove_robot, step and
\* load_state in which every robot of the world is a robot of the pool (no
\* child beyond it), stats.robots_created - stats.robots_destroyed is the
\* number of robots in World.robots; and remove_robot of a robot that is not
\* in the world changes neither the statistics nor the list.
C37_RobotCount ==
    /\ [](overflow = 0 =>
            stats.robots_created - stats.robots_destroyed = Len(robots))
    /\ [][(hist'.op = "remove_robot" /\ ~ hist'.ok) =>
             (stats' = stats /\ robots' = robots)]_vars

\* a world that has stepped and lost a robot in a step, after a load_state
\* into it that removed the robots it had and added the ones of the file
C37_Witness ==
    /\ hist.op = "load_state_here"
    /\ hist.raised = "none"
    /\ stats.steps > 0
    /\ Len(hist.start.robots) > 0
    /\ stats.robots_destroyed > Len(hist.start.robots)
    /\ Len(robots) > 0

\* C38: after any sequence of add_robot, remove_robot, add_static,
\* remove_static, step and load_state, the objects the engine has been given
\* by add_object and not taken from by a later remove_object are the robots
\* and static elements of the world.
C38_EngineInSync ==
    /\ engine.robots = { r \in Ids : InWorld(robots, r) }
    /\ engine.static = Len(static_elements)

\* C39: when load_state on a world raises IOError, World.robots and
\* World.static_elements hold what they held before the call.
C39_FailedLoadKeepsWorld ==
    (hist.op = "load_state_here" /\ hist.raised = "IOError") =>
        /\ robots = hist.start.robots
        /\ static_elements = hist.start.static

====
